---- MODULE Spec2Model ----
(***************************************************************************)
(* Model of WorldviousClient (kubevious/worldvious-client): the recurring  *)
(* job scheduler, the error aggregator and its flush, the snapshot store   *)
(* and the version check, as implemented by the latest client source.      *)
(*                                                                         *)
(* Time is discrete: one Tick is one second.  A pending timer holds the    *)
(* number of seconds left; it fires when that number is 0, and time does   *)
(* not advance while a timer is due.  A request in flight may complete     *)
(* at any time.                                                            *)
(***************************************************************************)
EXTENDS Integers, Sequences, FiniteSets, TLC

VARIABLES
    env,                    \* process.env, read by the constructor and _register
    id,                     \* this.id
    enabled,                \* this.enabled
    closed,                 \* this.closed
    isFirstErrorReported,   \* this.isFirstErrorReported
    jobConfigs,             \* this.jobConfigs[name].enabled
    timers,                 \* this.timers: seconds left, or NoTimer
    jobs,                   \* this.jobs: registered, seconds
    jobRuntime,             \* this.jobRuntime[name].isRunning
    counters,               \* this.counters
    metrics,                \* this.metrics
    errors,                 \* this.errors, in insertion order
    versionCheckResult,     \* this._versionCheckResult.notifications
    initPc,                 \* position of the promise chain of init()
    request,                \* per job: the request of its body that is in flight
    batch,                  \* payloads of the error batch that are not sent yet
    feedback,               \* the requests of reportFeedback that are in flight
    inflight,               \* per job: number of body executions in flight
    accepted,               \* per signature: acceptError calls since the last batch was built
    lastSnapshot,           \* per signature: acceptError calls that went into the batch being sent
    lastResult,             \* outcome of the handler that ended in the last step
    probe,                  \* what the observer records: results, the burst scenario
    listeners,              \* this._notificationsChangeListeners
    microtasks,             \* continuations queued by _trigger and _checkVersion
    calls,                  \* per listener: the invocations it has received
    history,                \* the successful version responses seen by listeners
    catchUp                 \* per listener: state and responses at its registration

core == <<env, id, enabled, closed, isFirstErrorReported, jobConfigs, timers,
          jobs, jobRuntime, counters, metrics, errors, versionCheckResult,
          initPc, request, batch, feedback, inflight, accepted, lastSnapshot,
          lastResult>>

notifyVars == <<listeners, microtasks, calls, history, catchUp>>

vars == <<core, probe, notifyVars>>

(***************************************************************************)
(* Bounds                                                                  *)
(***************************************************************************)
MaxCount == 2          \* acceptError calls per signature between two batches
MaxBurst == 3          \* errors of one burst
MaxFeedback == 1       \* reportFeedback requests in flight at a time
MaxResponses == 2      \* successful version responses delivered to listeners
MaxConcurrent == 2     \* executions of a job in flight when init is called again

(***************************************************************************)
(* Names and compiled-in configuration                                     *)
(***************************************************************************)
VersionCheck == "version-check"
ReportError == "report-error"
ReportCounters == "report-counters"
ReportMetrics == "report-metrics"

ReportActions == {VersionCheck, ReportError, ReportCounters, ReportMetrics}

\* mutant: version-check is the last job of the loop of init
JobOrderVersionCheckLast == <<ReportError, ReportCounters, ReportMetrics, VersionCheck>>

\* _.keys(this.jobConfigs): insertion order of the constructor
JobOrder == <<VersionCheck, ReportError, ReportCounters, ReportMetrics>>

VersionCheckDelay == 3600
ReportErrorDelay == 60
ReportCountersDelay == 3600
ReportMetricsDelay == 3600

delaySeconds(name) ==
    CASE name = VersionCheck -> VersionCheckDelay
      [] name = ReportError -> ReportErrorDelay
      [] name = ReportCounters -> ReportCountersDelay
      [] name = ReportMetrics -> ReportMetricsDelay

\* mutant: no job is configured to start immediately
NeverStartsImmediately(name) == FALSE

shouldStartImmediately(name) == name = VersionCheck

NoTimer == -1

ClientName == "proc"
ClientVersion == "v1"

(***************************************************************************)
(* Number.parseInt on a string given as a sequence of characters           *)
(***************************************************************************)
Digits == <<"0", "1", "2", "3", "4", "5", "6", "7", "8", "9">>

IsDigit(c) == \E i \in 1..10 : Digits[i] = c

DigitVal(c) == (CHOOSE i \in 1..10 : Digits[i] = c) - 1

RECURSIVE SkipSpaces(_)
SkipSpaces(s) ==
    IF s # <<>> /\ Head(s) = " " THEN SkipSpaces(Tail(s)) ELSE s

\* value of the longest prefix of digits of s, continuing from acc
RECURSIVE DigitsValue(_, _)
DigitsValue(s, acc) ==
    IF s # <<>> /\ IsDigit(Head(s))
    THEN DigitsValue(Tail(s), acc * 10 + DigitVal(Head(s)))
    ELSE acc

parseInt(str) ==
    LET s == SkipSpaces(str)
        neg == s # <<>> /\ Head(s) = "-"
        body == IF s # <<>> /\ Head(s) \in {"-", "+"} THEN Tail(s) ELSE s
    IN  IF body = <<>> \/ ~IsDigit(Head(body))
        THEN [nan |-> TRUE, val |-> 0]
        ELSE [nan |-> FALSE,
              val |-> IF neg THEN 0 - DigitsValue(body, 0) ELSE DigitsValue(body, 0)]

(***************************************************************************)
(* Constructor                                                             *)
(***************************************************************************)
\* truthiness of an environment string: undefined and "" are falsy
Truthy(s) == s # ""

ConstructorEnabled(e) == Truthy(e.WORLDVIOUS_ID) /\ Truthy(e.WORLDVIOUS_URL)

\* mutant: the flag of a job follows its own disable variable only
ConstructorJobConfigsPerJob(e) ==
    [name \in ReportActions |-> [enabled |-> ~Truthy(e.disable[name])]]

\* mutant: the disable flag of one job disables every job
ConstructorJobConfigsAnyFlag(e) ==
    [name \in ReportActions |->
        [enabled |-> ConstructorEnabled(e)
                        /\ \A other \in ReportActions : ~Truthy(e.disable[other])]]

ConstructorJobConfigs(e) ==
    [name \in ReportActions |->
        [enabled |-> IF ~ConstructorEnabled(e) THEN FALSE
                     ELSE ~Truthy(e.disable[name])]]

\* the seconds _register computes for a job; an override is a string given
\* as a sequence of characters, <<>> when the variable is unset or empty
RegisterSeconds(name) ==
    LET overrideValue == env.timeout[name]
    IN  IF overrideValue # <<>> /\ ~parseInt(overrideValue).nan
        THEN parseInt(overrideValue).val
        ELSE delaySeconds(name)

(***************************************************************************)
(* Error aggregator                                                        *)
(***************************************************************************)
\* an error value: null/undefined, or an object with a stack and a string form
NullError == [isNull |-> TRUE, stack |-> "", str |-> ""]

ErrorObject(stack, str) == [isNull |-> FALSE, stack |-> stack, str |-> str]

UndefinedError == "UNDEFINED ERROR"

_getErrorString(error) ==
    IF error.isNull THEN UndefinedError
    ELSE IF error.stack # "" THEN error.stack
    ELSE error.str

ErrorInputs ==
    {NullError, ErrorObject("at A", "boom"), ErrorObject("", "at A")}

Signatures == {_getErrorString(e) : e \in ErrorInputs}

HasError(errs, s) == \E i \in DOMAIN errs : errs[i].error = s

ErrorCount(errs, s) ==
    IF HasError(errs, s)
    THEN errs[CHOOSE i \in DOMAIN errs : errs[i].error = s].count
    ELSE 0

\* mutant: every call adds a record, known signature or not
RecordErrorAppended(errs, s) == Append(errs, [error |-> s, count |-> 1])

\* mutant: a known signature is recorded again with count 1
RecordErrorOnce(errs, s) ==
    IF HasError(errs, s)
    THEN [i \in DOMAIN errs |->
            IF errs[i].error = s THEN [errs[i] EXCEPT !.count = 1] ELSE errs[i]]
    ELSE Append(errs, [error |-> s, count |-> 1])

\* acceptError lines 677-684: increment the record of the signature or create it
RecordError(errs, s) ==
    IF HasError(errs, s)
    THEN [i \in DOMAIN errs |->
            IF errs[i].error = s
            THEN [errs[i] EXCEPT !.count = errs[i].count + 1]
            ELSE errs[i]]
    ELSE Append(errs, [error |-> s, count |-> 1])

(***************************************************************************)
(* Requests                                                                *)
(***************************************************************************)
None == "<none>"

NoRequest ==
    [kind |-> None, id |-> None, process |-> None, version |-> None,
     error |-> None, count |-> 0, counters |-> None, metrics |-> None,
     feedbackId |-> None, answers |-> None]

_makeNewData == [NoRequest EXCEPT !.id = id, !.process = ClientName]

VersionRequest == [_makeNewData EXCEPT !.kind = "version", !.version = ClientVersion]

\* mutant: the request carries the initial snapshot
StaleCountersRequest == [_makeNewData EXCEPT !.kind = "counters", !.counters = "[]"]

CountersRequest == [_makeNewData EXCEPT !.kind = "counters", !.counters = counters]

MetricsRequest == [_makeNewData EXCEPT !.kind = "metrics", !.metrics = metrics]

ErrorRequest(errorInfo) ==
    [_makeNewData EXCEPT !.kind = "error", !.version = ClientVersion,
                         !.error = errorInfo.error, !.count = errorInfo.count]

FeedbackRequest(data) ==
    [NoRequest EXCEPT !.kind = "feedback", !.id = id,
                      !.feedbackId = data.id, !.answers = data.answers]

\* mutant: only the first record of the map goes into the batch
PayloadsOfFirst(errs) == <<ErrorRequest(errs[1])>>

\* _reportError lines 804-813: one payload per record, in the order of the map
Payloads(errs) == [i \in DOMAIN errs |-> ErrorRequest(errs[i])]

(***************************************************************************)
(* Job scheduler                                                           *)
(***************************************************************************)
NoResult == [job |-> None, status |-> None]

Result(name, status) ==
    IF probe.results THEN [job |-> name, status |-> status] ELSE NoResult

\* mutant: the global flag is read instead of the flag of the job
IsEnabledGlobally(name) == enabled

\* `config.enabled` as read by _runJob (839-842) and _register (914-917)
IsEnabled(name) == jobConfigs[name].enabled

\* mutant: _runJob does not look at `closed`
RunJobGuardAfterClose(name) ==
    /\ IsEnabled(name)
    /\ jobs[name].registered

\* mutant: _runJob does not look the job up in `jobs`
RunJobGuardUnregistered(name) ==
    /\ ~closed
    /\ IsEnabled(name)

\* the early returns of _runJob, lines 835-848
RunJobGuard(name) ==
    /\ ~closed
    /\ IsEnabled(name)
    /\ jobs[name].registered

\* mutant: the timer is armed one second short of the interval
ShorterDelay(seconds) == IF seconds > 0 THEN seconds - 1 ELSE 0

\* setTimeout treats a negative delay as no delay
TimerDelay(seconds) == IF seconds < 0 THEN 0 ELSE seconds

\* mutant: a timer is armed without looking for a pending one
ArmsTimerAlways(t, name) == RunJobGuard(name)

\* mutant: only init arms a timer
ArmsTimerInInit(t, name) ==
    RunJobGuard(name) /\ t[name] = NoTimer /\ initPc.at = "run"

\* _runJob(name, false), lines 884-897: does it arm a fresh timer, given timers t
ArmsTimer(t, name) == RunJobGuard(name) /\ t[name] = NoTimer

\* mutant: after init a timer is armed only at the end of an execution that
\* waited for a request
ScheduleAfterRequestOnly(t, name) ==
    IF ArmsTimer(t, name) /\ (initPc.at = "run" \/ jobRuntime[name].isRunning)
    THEN [t EXCEPT ![name] = TimerDelay(jobs[name].seconds)]
    ELSE t

\* mutant: _runJob(name, false) arms nothing
ScheduleNothing(t, name) == t

ScheduleTimers(t, name) ==
    IF ArmsTimer(t, name)
    THEN [t EXCEPT ![name] = TimerDelay(jobs[name].seconds)]
    ELSE t

\* mutant: the hook is registered for version-check instead of report-error
PreScheduleLatchOfVersionCheck(latch, t, name) ==
    IF ArmsTimer(t, name) /\ name = VersionCheck THEN FALSE ELSE latch

\* mutant: no hook is registered for report-error
PreScheduleLatchKept(latch, t, name) == latch

\* job.preScheduleCb, registered for report-error only (lines 738-742)
PreScheduleLatch(latch, t, name) ==
    IF ArmsTimer(t, name) /\ name = ReportError THEN FALSE ELSE latch

\* mutant: the pending timer is left alone
StopNothing(t, name) == t

\* _stopScheduledJob, lines 902-910
StopScheduledJob(t, name) == [t EXCEPT ![name] = NoTimer]

\* mutant: one running flag for all jobs
HandlerSkipsWhenAnyRuns(name) ==
    \E other \in ReportActions : jobRuntime[other].isRunning

\* mutant: the handler does not look at isRunning
HandlerSkipsNever(name) == FALSE

\* the guard of the handler, lines 851-854
HandlerSkips(name) == jobRuntime[name].isRunning

\* mutant: the pending map is not replaced when a batch is built
KeptErrors(errs) == errs

\* the value `this.errors` gets when a batch is built, line 814
ClearedErrors(errs) == <<>>

Zeros == [s \in Signatures |-> 0]

\* does job.cb() return a promise that is still pending
BodyIsAsync(name, errs) == name # ReportError \/ errs # <<>>

\* can job.cb() throw: the bodies that call _request themselves (757, 788,
\* 795) do when post() throws; _reportError calls it from the serial loop
BodyMayThrow(name) == env.postThrows /\ name # ReportError

\* the request a body sends first: _checkVersion (753-757), _reportCounters
\* (784-789), _reportMetrics (791-796), _reportError (798-818)
FirstRequest(name, errs) ==
    CASE name = VersionCheck -> VersionRequest
      [] name = ReportCounters -> CountersRequest
      [] name = ReportMetrics -> MetricsRequest
      [] name = ReportError -> Head(Payloads(errs))

\* The handler (850-877) entered with timers t, latch value latch, pending
\* map errs and acceptance counts acc.  It leaves initPc to its caller.
Handler(name, t, latch, errs, acc) ==
    IF HandlerSkips(name)
    THEN \* already running: arm for the next interval instead
         /\ timers' = ScheduleTimers(t, name)
         /\ isFirstErrorReported' = PreScheduleLatch(latch, t, name)
         /\ errors' = errs
         /\ accepted' = acc
         /\ lastResult' = Result(name, "skipped")
         /\ UNCHANGED <<jobRuntime, request, batch, inflight, lastSnapshot>>
    ELSE IF ~BodyIsAsync(name, errs)
    THEN \* _reportError with an empty map returns undefined (800-802): the
         \* chain completes in the same turn, clears isRunning and re-arms
         /\ timers' = ScheduleTimers(t, name)
         /\ isFirstErrorReported' = PreScheduleLatch(latch, t, name)
         /\ errors' = errs
         /\ accepted' = acc
         /\ lastResult' = Result(name, "ok")
         /\ UNCHANGED <<jobRuntime, request, batch, inflight, lastSnapshot>>
    ELSE \/ /\ jobRuntime' = [jobRuntime EXCEPT ![name].isRunning = TRUE]
            /\ request' = [request EXCEPT ![name] = FirstRequest(name, errs)]
            /\ inflight' = [inflight EXCEPT ![name] = @ + 1]
            /\ timers' = t
            /\ isFirstErrorReported' = latch
            /\ lastResult' = NoResult
            /\ IF name = ReportError
               THEN /\ batch' = Tail(Payloads(errs))
                    /\ errors' = ClearedErrors(errs)
                    /\ lastSnapshot' = acc
                    /\ accepted' = Zeros
               ELSE /\ errors' = errs
                    /\ accepted' = acc
                    /\ UNCHANGED <<batch, lastSnapshot>>
         \/ \* job.cb() throws: the catch block (872-876) logs and returns a
            \* resolved promise
            /\ BodyMayThrow(name)
            /\ jobRuntime' = [jobRuntime EXCEPT ![name].isRunning = TRUE]
            /\ timers' = t
            /\ isFirstErrorReported' = latch
            /\ errors' = errs
            /\ accepted' = acc
            /\ lastResult' = Result(name, "threw")
            /\ UNCHANGED <<request, batch, inflight, lastSnapshot>>

\* _runJob(name, executeNow) as a whole (833-900), entered with latch value
\* latch, pending map errs and acceptance counts acc
RunJob(name, executeNow, latch, errs, acc) ==
    IF ~RunJobGuard(name)
    THEN /\ isFirstErrorReported' = latch
         /\ errors' = errs
         /\ accepted' = acc
         /\ lastResult' = NoResult
         /\ UNCHANGED <<timers, jobRuntime, request, batch, inflight, lastSnapshot>>
    ELSE IF executeNow
    THEN Handler(name, StopScheduledJob(timers, name), latch, errs, acc)
    ELSE /\ timers' = ScheduleTimers(timers, name)
         /\ isFirstErrorReported' = PreScheduleLatch(latch, timers, name)
         /\ errors' = errs
         /\ accepted' = acc
         /\ lastResult' = NoResult
         /\ UNCHANGED <<jobRuntime, request, batch, inflight, lastSnapshot>>

\* mutant: the completion arms a fresh timer over a pending one
CompleteArmsAfresh(name, status) ==
    /\ jobRuntime' = [jobRuntime EXCEPT ![name].isRunning = FALSE]
    /\ request' = [request EXCEPT ![name] = NoRequest]
    /\ inflight' = [inflight EXCEPT ![name] = @ - 1]
    /\ timers' = ScheduleTimers(StopScheduledJob(timers, name), name)
    /\ isFirstErrorReported' =
          PreScheduleLatch(isFirstErrorReported, StopScheduledJob(timers, name), name)
    /\ lastResult' = Result(name, status)
    /\ initPc' = IF initPc.at = "wait" /\ JobOrder[initPc.i] = name
                 THEN IF initPc.i < Len(JobOrder)
                      THEN [at |-> "run", i |-> initPc.i + 1]
                      ELSE [at |-> "done", i |-> 0]
                 ELSE initPc

\* mutant: the chain of the handler has no catch, a failed execution stays
\* marked as running
CompleteStuckOnFailure(name, status) ==
    /\ jobRuntime' = IF status = "failed" THEN jobRuntime
                     ELSE [jobRuntime EXCEPT ![name].isRunning = FALSE]
    /\ request' = [request EXCEPT ![name] = NoRequest]
    /\ inflight' = [inflight EXCEPT ![name] = @ - 1]
    /\ timers' = IF status = "failed" THEN timers ELSE ScheduleTimers(timers, name)
    /\ isFirstErrorReported' = isFirstErrorReported
    /\ lastResult' = Result(name, status)
    /\ initPc' = IF initPc.at = "wait" /\ JobOrder[initPc.i] = name
                 THEN IF initPc.i < Len(JobOrder)
                      THEN [at |-> "run", i |-> initPc.i + 1]
                      ELSE [at |-> "done", i |-> 0]
                 ELSE initPc

\* mutant: a failed execution is not re-armed
CompleteWithoutRearm(name, status) ==
    /\ jobRuntime' = [jobRuntime EXCEPT ![name].isRunning = FALSE]
    /\ request' = [request EXCEPT ![name] = NoRequest]
    /\ inflight' = [inflight EXCEPT ![name] = @ - 1]
    /\ timers' = IF status = "failed" THEN timers ELSE ScheduleTimers(timers, name)
    /\ isFirstErrorReported' = isFirstErrorReported
    /\ lastResult' = Result(name, status)
    /\ initPc' = IF initPc.at = "wait" /\ JobOrder[initPc.i] = name
                 THEN IF initPc.i < Len(JobOrder)
                      THEN [at |-> "run", i |-> initPc.i + 1]
                      ELSE [at |-> "done", i |-> 0]
                 ELSE initPc

\* the last step of the handler's chain, lines 867-870, and the continuation
\* of init when it was waiting for this execution; when a second execution
\* of the job is in flight its request stays with the transport
Complete(name, status) ==
    /\ jobRuntime' = [jobRuntime EXCEPT ![name].isRunning = FALSE]
    /\ request' = [request EXCEPT ![name] =
                      IF inflight[name] > 1 THEN @ ELSE NoRequest]
    /\ inflight' = [inflight EXCEPT ![name] = @ - 1]
    /\ timers' = ScheduleTimers(timers, name)
    /\ isFirstErrorReported' = PreScheduleLatch(isFirstErrorReported, timers, name)
    /\ lastResult' = Result(name, status)
    /\ initPc' = IF initPc.at = "wait" /\ JobOrder[initPc.i] = name
                 THEN IF initPc.i < Len(JobOrder)
                      THEN [at |-> "run", i |-> initPc.i + 1]
                      ELSE [at |-> "done", i |-> 0]
                 ELSE initPc

(***************************************************************************)
(* Inputs of the host and of the collector                                 *)
(***************************************************************************)
InitialSnapshot == "[]"

SnapshotValues == {"{foo1:bar1}"}

NewVersionItem ==
    [kind |-> "new-version", name |-> "kubevious", version |-> "v2",
     url |-> "http://get", id |-> None]

FeedbackItem ==
    [kind |-> "feedback-request", name |-> None, version |-> None,
     url |-> None, id |-> "fb-1"]

Responses == {<<>>, <<NewVersionItem, FeedbackItem>>}

FeedbackData == {[id |-> "fb-1", answers |-> "{q1:yes}"]}

NoJobs == [name \in ReportActions |-> ""]

\* the environments of the main specification: identity and address present
\* or not, the error job disabled or not, every interval overridden
Timeouts == [name \in ReportActions |-> <<"1">>]

Environments ==
    {[WORLDVIOUS_ID |-> i, WORLDVIOUS_URL |-> u, disable |-> d, timeout |-> Timeouts,
      postThrows |-> FALSE] :
        i \in {"", "id-1"}, u \in {"", "http://w"},
        d \in {NoJobs, [NoJobs EXCEPT ![ReportError] = "true"]}}

\* the environment of the burst scenario: the error interval is 3 seconds
BurstEnvironment ==
    [WORLDVIOUS_ID |-> "id-1", WORLDVIOUS_URL |-> "http://w", disable |-> NoJobs,
     timeout |-> [Timeouts EXCEPT ![ReportError] = <<"3">>], postThrows |-> FALSE]

\* an environment whose HTTP client may throw from post() instead of
\* returning a promise
ThrowEnvironment ==
    [WORLDVIOUS_ID |-> "id-1", WORLDVIOUS_URL |-> "http://w", disable |-> NoJobs,
     timeout |-> Timeouts, postThrows |-> TRUE]

\* the environments in which exactly one job is disabled by its flag
OneJobDisabled ==
    {[WORLDVIOUS_ID |-> "id-1", WORLDVIOUS_URL |-> "http://w",
      disable |-> [NoJobs EXCEPT ![name] = "true"],
      timeout |-> Timeouts, postThrows |-> FALSE] : name \in ReportActions}

\* the environment of the notification scenario: only version-check enabled
NotifyEnvironment ==
    [WORLDVIOUS_ID |-> "id-1", WORLDVIOUS_URL |-> "http://w",
     disable |-> [NoJobs EXCEPT ![ReportError] = "true",
                                ![ReportCounters] = "true",
                                ![ReportMetrics] = "true"],
     timeout |-> Timeouts, postThrows |-> FALSE]

\* the responses of the notification scenario: no two share an item
NotifyResponses == {<<>>, <<NewVersionItem>>, <<FeedbackItem>>}

\* the environment and the inputs of the snapshot scenario
DataEnvironment ==
    [WORLDVIOUS_ID |-> "id-1", WORLDVIOUS_URL |-> "http://w",
     disable |-> NoJobs,
     timeout |-> [Timeouts EXCEPT ![ReportCounters] = <<"2">>,
                                  ![ReportMetrics] = <<"2">>],
     postThrows |-> FALSE]

SnapshotInputs == {"{foo1:bar1}", "{foo1:bar2}"}

\* the values of an interval override: unset, "0", "2", "-1", "1x", "x"
OverrideInputs ==
    {<<>>, <<"0">>, <<"2">>, <<"-", "1">>, <<"1", "x">>, <<"x">>}

\* the environments of the interval scenario: every job with any override
IntervalEnvironments ==
    {[WORLDVIOUS_ID |-> "id-1", WORLDVIOUS_URL |-> "http://w", disable |-> NoJobs,
      timeout |-> t, postThrows |-> FALSE] :
        t \in [ReportActions -> OverrideInputs]}

\* the environment of the timing scenario: the error interval is 2 seconds
ClockEnvironment ==
    [WORLDVIOUS_ID |-> "id-1", WORLDVIOUS_URL |-> "http://w", disable |-> NoJobs,
     timeout |-> [Timeouts EXCEPT ![ReportError] = <<"2">>], postThrows |-> FALSE]

\* the listeners of the host, and how an invocation of one may end
ListenerIds == {"l1", "l2"}

Outcomes == {"ok", "throws", "rejects"}

(***************************************************************************)
(* State after construction                                                *)
(***************************************************************************)
NoProbe ==
    [results |-> FALSE, phase |-> "off", n |-> 0, flushes |-> <<>>, sinceDone |-> 0,
     clock |-> FALSE, since |-> [name \in ReportActions |-> NoTimer]]

\* the results of the job bodies are recorded
ProbeResults == [NoProbe EXCEPT !.results = TRUE]

\* the burst scenario is observed, no error accepted yet
ProbeBurst == [NoProbe EXCEPT !.results = TRUE, !.phase = "idle"]

\* the results are recorded and, per job, the seconds since its last completion
ProbeClock == [NoProbe EXCEPT !.results = TRUE, !.clock = TRUE]

Constructed(e) ==
    /\ env = e
    /\ id = e.WORLDVIOUS_ID
    /\ enabled = ConstructorEnabled(e)
    /\ closed = FALSE
    /\ isFirstErrorReported = FALSE
    /\ jobConfigs = ConstructorJobConfigs(e)
    /\ timers = [name \in ReportActions |-> NoTimer]
    /\ jobs = [name \in ReportActions |-> [registered |-> FALSE, seconds |-> 0]]
    /\ jobRuntime = [name \in ReportActions |-> [isRunning |-> FALSE]]
    /\ counters = InitialSnapshot
    /\ metrics = InitialSnapshot
    /\ errors = <<>>
    /\ versionCheckResult = <<>>
    /\ initPc = [at |-> "new", i |-> 0]
    /\ request = [name \in ReportActions |-> NoRequest]
    /\ batch = <<>>
    /\ feedback = <<>>
    /\ inflight = [name \in ReportActions |-> 0]
    /\ accepted = Zeros
    /\ lastSnapshot = Zeros
    /\ lastResult = NoResult
    /\ listeners = <<>>
    /\ microtasks = <<>>
    /\ calls = [l \in ListenerIds |-> <<>>]
    /\ history = <<>>
    /\ catchUp = [l \in ListenerIds |-> [since |-> 0, held |-> <<>>]]

Init ==
    /\ \E e \in Environments : Constructed(e)
    /\ probe = ProbeResults

(***************************************************************************)
(* Steps as seen from outside                                              *)
(***************************************************************************)
\* the step is an acceptError call with signature s: the call is counted, and
\* the counts become those of a new batch if the call builds one
AcceptStepOf(s) ==
    LET acc == [accepted EXCEPT ![s] = @ + 1]
    IN  \/ accepted' = acc
        \/ accepted' = Zeros /\ lastSnapshot' = acc /\ lastSnapshot' # lastSnapshot

AcceptStep == \E s \in Signatures : AcceptStepOf(s)

\* the step starts an execution of the body of job name
StartsBody(name) == inflight'[name] > inflight[name]

\* the step hands a new request of job name to the transport
SendsRequest(name) ==
    request'[name] # NoRequest /\ request'[name] # request[name]

\* the error payloads that are in flight or still to be sent
BatchInFlight ==
    IF request[ReportError] = NoRequest THEN <<>>
    ELSE <<request[ReportError]>> \o batch

(***************************************************************************)
(* Observer of the burst scenario: it counts the errors of a burst and     *)
(* logs every report/error request with the seconds passed since the       *)
(* error job last completed.  It is off unless Init switches it on.        *)
(***************************************************************************)
ErrorJobCompletes ==
    jobRuntime[ReportError].isRunning /\ ~jobRuntime'[ReportError].isRunning

SecondPasses ==
    \E name \in ReportActions : timers[name] > 0 /\ timers'[name] = timers[name] - 1

\* the step executes _reportError with an empty map, from its timer
EmptyFlush ==
    /\ timers[ReportError] = 0
    /\ timers'[ReportError] # 0
    /\ errors = <<>>
    /\ ~jobRuntime[ReportError].isRunning
    /\ ~jobRuntime'[ReportError].isRunning

\* the step completes an execution of job name
Completes(name) ==
    \/ jobRuntime[name].isRunning /\ ~jobRuntime'[name].isRunning
    \/ name = ReportError /\ EmptyFlush

\* the step starts an execution of job name from its timer
TimerStarts(name) ==
    \/ timers[name] = 0 /\ StartsBody(name) /\ ~AcceptStep
    \/ name = ReportError /\ EmptyFlush

\* the step arms job name for the first time
FirstArmed(name) ==
    probe.since[name] = NoTimer /\ timers[name] = NoTimer /\ timers'[name] # NoTimer

\* per job the seconds since its last completion or, before the first one,
\* since it was first armed; counted up to one more than the interval
Clock ==
    [name \in ReportActions |->
        IF Completes(name) \/ FirstArmed(name) THEN 0
        ELSE IF SecondPasses /\ probe.since[name] >= 0
                /\ probe.since[name] <= jobs[name].seconds
        THEN probe.since[name] + 1
        ELSE probe.since[name]]

Observe ==
    probe' =
        IF probe.phase = "off"
        THEN IF probe.clock THEN [probe EXCEPT !.since = Clock] ELSE probe
        ELSE [results |-> probe.results,
              clock |-> probe.clock,
              since |-> probe.since,
              phase |-> IF AcceptStep /\ probe.phase = "idle" THEN "burst"
                        ELSE IF ErrorJobCompletes /\ probe.phase = "burst" THEN "after"
                        ELSE probe.phase,
              n |-> IF AcceptStep THEN probe.n + 1 ELSE probe.n,
              flushes |-> IF SendsRequest(ReportError)
                          THEN Append(probe.flushes,
                                      [count |-> request'[ReportError].count,
                                       delay |-> probe.sinceDone])
                          ELSE probe.flushes,
              sinceDone |-> IF ErrorJobCompletes THEN 0
                            ELSE IF SecondPasses /\ probe.phase = "after"
                                    /\ probe.sinceDone <= jobs[ReportError].seconds
                            THEN probe.sinceDone + 1
                            ELSE probe.sinceDone]

(***************************************************************************)
(* Operations                                                              *)
(***************************************************************************)
\* _register, lines 912-942
Register(name) ==
    IF IsEnabled(name)
    THEN [registered |-> TRUE, seconds |-> RegisterSeconds(name)]
    ELSE jobs[name]

\* init() up to and including _schedule(), lines 651-654 and 732-751
InitSchedule ==
    /\ initPc.at = "new"
    /\ jobs' = [name \in ReportActions |-> Register(name)]
    /\ jobRuntime' = [name \in ReportActions |->
                        IF IsEnabled(name) THEN [isRunning |-> FALSE]
                        ELSE jobRuntime[name]]
    /\ initPc' = [at |-> "run", i |-> 1]
    /\ lastResult' = NoResult
    /\ UNCHANGED <<env, id, enabled, closed, isFirstErrorReported, jobConfigs,
                   timers, counters, metrics, errors, versionCheckResult, notifyVars,
                   request, batch, feedback, inflight, accepted, lastSnapshot>>
    /\ Observe

\* a further call of init() on a client whose earlier init() has resolved:
\* _schedule() registers every enabled job again, and _register (933-941)
\* replaces its runtime record by one whose isRunning is false
InitAgain ==
    /\ initPc.at = "done"
    /\ \A name \in ReportActions : inflight[name] < MaxConcurrent
    /\ jobs' = [name \in ReportActions |-> Register(name)]
    /\ jobRuntime' = [name \in ReportActions |->
                        IF IsEnabled(name) THEN [isRunning |-> FALSE]
                        ELSE jobRuntime[name]]
    /\ initPc' = [at |-> "run", i |-> 1]
    /\ lastResult' = NoResult
    /\ UNCHANGED <<env, id, enabled, closed, isFirstErrorReported, jobConfigs,
                   timers, counters, metrics, errors, versionCheckResult, notifyVars,
                   request, batch, feedback, inflight, accepted, lastSnapshot>>
    /\ Observe

\* one iteration of the serial loop of init(), lines 656-659; the loop waits
\* for the promise of the handler, which is pending while the body is in flight
InitRunJob ==
    /\ initPc.at = "run"
    /\ LET name == JobOrder[initPc.i]
           now == shouldStartImmediately(name)
       IN  /\ RunJob(name, now, isFirstErrorReported, errors, accepted)
           /\ initPc' = IF StartsBody(name)
                        THEN [at |-> "wait", i |-> initPc.i]
                        ELSE IF initPc.i < Len(JobOrder)
                        THEN [at |-> "run", i |-> initPc.i + 1]
                        ELSE [at |-> "done", i |-> 0]
    /\ UNCHANGED <<env, id, enabled, closed, jobConfigs, jobs, counters,
                   metrics, versionCheckResult, notifyVars, feedback>>
    /\ Observe

\* close(), lines 663-672
Close ==
    /\ ~closed
    /\ closed' = TRUE
    /\ timers' = [name \in ReportActions |-> NoTimer]
    /\ lastResult' = NoResult
    /\ UNCHANGED <<env, id, enabled, isFirstErrorReported, jobConfigs, jobs,
                   jobRuntime, counters, metrics, errors, versionCheckResult, notifyVars,
                   initPc, request, batch, feedback, inflight, accepted,
                   lastSnapshot>>
    /\ Observe

\* mutant: the latch is read the wrong way round
TriggersRunNowInverted(latch) == latch

\* mutant: every acceptError calls _runJob
TriggersRunNowAlways(latch) == TRUE

\* does acceptError call _runJob, lines 686-689
TriggersRunNow(latch) == ~latch

\* acceptError(error), lines 674-690
AcceptError(error) ==
    LET s == _getErrorString(error)
        errs == RecordError(errors, s)
        acc == [accepted EXCEPT ![s] = @ + 1]
    IN  /\ accepted[s] < MaxCount
        /\ IF TriggersRunNow(isFirstErrorReported)
           THEN RunJob(ReportError, TRUE, TRUE, errs, acc)
           ELSE /\ errors' = errs
                /\ accepted' = acc
                /\ lastResult' = NoResult
                /\ UNCHANGED <<isFirstErrorReported, timers, jobRuntime,
                               request, batch, inflight, lastSnapshot>>
        /\ UNCHANGED <<env, id, enabled, closed, jobConfigs, jobs, counters,
                       metrics, versionCheckResult, notifyVars, initPc, feedback>>
    /\ Observe

\* mutant: acceptCounters stores the value as the metrics too
AcceptCountersAndMetrics(value) ==
    /\ counters' = value
    /\ metrics' = value
    /\ lastResult' = NoResult
    /\ UNCHANGED <<env, id, enabled, closed, isFirstErrorReported, jobConfigs,
                   timers, jobs, jobRuntime, errors,
                   versionCheckResult, notifyVars, initPc, request, batch, feedback,
                   inflight, accepted, lastSnapshot>>
    /\ Observe

\* acceptCounters(value), lines 692-695
AcceptCounters(value) ==
    /\ counters' = value
    /\ lastResult' = NoResult
    /\ UNCHANGED <<env, id, enabled, closed, isFirstErrorReported, jobConfigs,
                   timers, jobs, jobRuntime, metrics, errors,
                   versionCheckResult, notifyVars, initPc, request, batch, feedback,
                   inflight, accepted, lastSnapshot>>
    /\ Observe

\* acceptMetrics(value), lines 697-700
AcceptMetrics(value) ==
    /\ metrics' = value
    /\ lastResult' = NoResult
    /\ UNCHANGED <<env, id, enabled, closed, isFirstErrorReported, jobConfigs,
                   timers, jobs, jobRuntime, counters, errors,
                   versionCheckResult, notifyVars, initPc, request, batch, feedback,
                   inflight, accepted, lastSnapshot>>
    /\ Observe

\* the guard of reportFeedback, lines 704-706
FeedbackGuard == Truthy(id)

\* reportFeedback(data), lines 702-713
ReportFeedback(data) ==
    /\ Len(feedback) < MaxFeedback
    /\ feedback' = IF FeedbackGuard
                   THEN Append(feedback, FeedbackRequest(data))
                   ELSE feedback
    /\ lastResult' = NoResult
    /\ UNCHANGED <<env, id, enabled, closed, isFirstErrorReported, jobConfigs,
                   timers, jobs, jobRuntime, counters, metrics, errors,
                   versionCheckResult, notifyVars, initPc, request, batch, inflight,
                   accepted, lastSnapshot>>
    /\ Observe

\* nothing of the event loop runs while a chain of init is ready to continue
\* or a continuation is queued
LoopIsFree == initPc.at # "run" /\ microtasks = <<>>

\* mutant: _trigger queues the invocation twice
TriggerTwice(q, l) ==
    q \o <<[kind |-> "listener", listener |-> l],
           [kind |-> "listener", listener |-> l]>>

\* _trigger(cb), lines 715-730: the invocation of cb is the continuation of a
\* resolved promise
Trigger(q, l) == Append(q, [kind |-> "listener", listener |-> l])

\* mutant: only the first listener of the registry is triggered
TriggerFirstOnly(q, ls) == Trigger(q, Head(ls))

\* the loop of _activateNewVersionInfo, lines 778-781
RECURSIVE TriggerAll(_, _)
TriggerAll(q, ls) ==
    IF ls = <<>> THEN q ELSE TriggerAll(Trigger(q, Head(ls)), Tail(ls))

\* onNotificationsChanged(cb), lines 645-649
OnNotificationsChanged(l) ==
    /\ l \notin {listeners[i] : i \in DOMAIN listeners}
    /\ listeners' = Append(listeners, l)
    /\ microtasks' = Trigger(microtasks, l)
    /\ catchUp' = [catchUp EXCEPT ![l] = [since |-> Len(history),
                                          held |-> versionCheckResult]]
    /\ lastResult' = NoResult
    /\ UNCHANGED <<env, id, enabled, closed, isFirstErrorReported, jobConfigs,
                   timers, jobs, jobRuntime, counters, metrics, errors,
                   versionCheckResult, initPc, request, batch, feedback,
                   inflight, accepted, lastSnapshot, calls, history>>
    /\ Observe

\* mutant: a listener that fails ends the delivery to the listeners after it
DropAfterFailure(q, outcome) ==
    IF outcome = "ok" THEN Tail(q)
    ELSE SelectSeq(Tail(q), LAMBDA t : t.kind # "listener")

\* the queue after an invocation: the catch of _trigger (721-723) logs
AfterListener(q, outcome) == Tail(q)

\* the continuation queued by _trigger runs: cb(this._versionCheckResult),
\* line 720, which may return, throw, or return a promise that rejects
ListenerRuns ==
    /\ microtasks # <<>>
    /\ Head(microtasks).kind = "listener"
    /\ \E outcome \in Outcomes :
          /\ calls' = [calls EXCEPT ![Head(microtasks).listener] =
                          Append(@, [state |-> versionCheckResult,
                                     outcome |-> outcome])]
          /\ microtasks' = AfterListener(microtasks, outcome)
    /\ lastResult' = NoResult
    /\ UNCHANGED <<env, id, enabled, closed, isFirstErrorReported, jobConfigs,
                   timers, jobs, jobRuntime, counters, metrics, errors,
                   versionCheckResult, initPc, request, batch, feedback,
                   inflight, accepted, lastSnapshot, listeners, history,
                   catchUp>>
    /\ Observe

\* the chain of the handler (861-870) continues after _checkVersion's
\* continuation and the invocations it queued
VersionCheckCompletes ==
    /\ microtasks # <<>>
    /\ Head(microtasks).kind = "complete"
    /\ microtasks' = Tail(microtasks)
    /\ Complete(VersionCheck, "ok")
    /\ UNCHANGED <<env, id, enabled, closed, jobConfigs, jobs, counters,
                   metrics, errors, versionCheckResult, batch, feedback,
                   accepted, lastSnapshot, listeners, calls, history, catchUp>>
    /\ Observe

\* a request of reportFeedback completes; its result goes to the host
FeedbackCompletes ==
    /\ LoopIsFree
    /\ feedback # <<>>
    /\ feedback' = Tail(feedback)
    /\ lastResult' = NoResult
    /\ UNCHANGED <<env, id, enabled, closed, isFirstErrorReported, jobConfigs,
                   timers, jobs, jobRuntime, counters, metrics, errors,
                   versionCheckResult, notifyVars, initPc, request, batch, inflight,
                   accepted, lastSnapshot>>
    /\ Observe

\* one second passes; a due timer fires before time advances
Tick ==
    /\ LoopIsFree
    /\ \A name \in ReportActions : timers[name] # 0
    /\ \E name \in ReportActions : timers[name] > 0
    /\ timers' = [name \in ReportActions |->
                    IF timers[name] > 0 THEN timers[name] - 1 ELSE timers[name]]
    /\ lastResult' = NoResult
    /\ UNCHANGED <<env, id, enabled, closed, isFirstErrorReported, jobConfigs,
                   jobs, jobRuntime, counters, metrics, errors,
                   versionCheckResult, notifyVars, initPc, request, batch, feedback,
                   inflight, accepted, lastSnapshot>>
    /\ Observe

\* the callback of setTimeout, lines 890-894
TimerFires(name) ==
    /\ LoopIsFree
    /\ timers[name] = 0
    /\ Handler(name, [timers EXCEPT ![name] = NoTimer], isFirstErrorReported,
               errors, accepted)
    /\ UNCHANGED <<env, id, enabled, closed, jobConfigs, jobs, counters,
                   metrics, versionCheckResult, notifyVars, initPc, feedback>>
    /\ Observe

\* mutant: the items of the response are added to the ones held
AccumulatedState(held, result) == held \o result

\* the assignment of _activateNewVersionInfo, line 777
ActivatedState(held, result) == result

\* the response of report/version arrives: _checkVersion (757-760) and
\* _activateNewVersionInfo (763-782), then the handler's chain; with
\* listeners registered their invocations are queued ahead of that chain
VersionCheckSucceeds(result) ==
    /\ LoopIsFree
    /\ request[VersionCheck] # NoRequest
    /\ Len(history) < MaxResponses
    /\ versionCheckResult' = ActivatedState(versionCheckResult, result)
    /\ IF listeners = <<>>
       THEN /\ Complete(VersionCheck, "ok")
            /\ UNCHANGED <<microtasks, history>>
       ELSE /\ microtasks' = Append(TriggerAll(microtasks, listeners),
                                    [kind |-> "complete", listener |-> None])
            /\ history' = Append(history, result)
            /\ request' = [request EXCEPT ![VersionCheck] = NoRequest]
            /\ lastResult' = NoResult
            /\ UNCHANGED <<jobRuntime, inflight, timers, isFirstErrorReported,
                           initPc>>
    /\ UNCHANGED <<env, id, enabled, closed, jobConfigs, jobs, counters,
                   metrics, errors, batch, feedback, accepted, lastSnapshot,
                   listeners, calls, catchUp>>
    /\ Observe

\* the response of report/counters or report/metrics arrives
SnapshotRequestSucceeds(name) ==
    /\ LoopIsFree
    /\ name \in {ReportCounters, ReportMetrics}
    /\ request[name] # NoRequest
    /\ Complete(name, "ok")
    /\ UNCHANGED <<env, id, enabled, closed, jobConfigs, jobs, counters,
                   metrics, errors, versionCheckResult, notifyVars, batch, feedback,
                   accepted, lastSnapshot>>
    /\ Observe

\* a request of version-check, report-counters or report-metrics fails
RequestFails(name) ==
    /\ LoopIsFree
    /\ name \in {VersionCheck, ReportCounters, ReportMetrics}
    /\ request[name] # NoRequest
    /\ Complete(name, "failed")
    /\ UNCHANGED <<env, id, enabled, closed, jobConfigs, jobs, counters,
                   metrics, errors, versionCheckResult, notifyVars, batch, feedback,
                   accepted, lastSnapshot>>
    /\ Observe

\* a request of the error batch succeeds: the serial loop (816-818) sends the
\* next payload, or the batch is done
ErrorRequestSucceeds ==
    /\ LoopIsFree
    /\ request[ReportError] # NoRequest
    /\ IF batch # <<>>
       THEN /\ request' = [request EXCEPT ![ReportError] = Head(batch)]
            /\ batch' = Tail(batch)
            /\ lastResult' = NoResult
            /\ UNCHANGED <<jobRuntime, inflight, timers, isFirstErrorReported,
                           initPc, lastSnapshot>>
       ELSE /\ batch' = <<>>
            /\ lastSnapshot' = Zeros
            /\ Complete(ReportError, "ok")
    /\ UNCHANGED <<env, id, enabled, closed, jobConfigs, jobs, counters,
                   metrics, errors, versionCheckResult, notifyVars, feedback, accepted>>
    /\ Observe

\* mutant: the records of the failed batch are put back into the map
RestoredBatch(errs, b) ==
    [i \in DOMAIN b |-> [error |-> b[i].error, count |-> b[i].count]] \o errs

\* what the pending map is after a request of the batch b has failed
AfterFailedBatch(errs, b) == errs

\* a request of the error batch fails: the serial loop rejects, the remaining
\* payloads are not sent
ErrorRequestFails ==
    /\ LoopIsFree
    /\ request[ReportError] # NoRequest
    /\ batch' = <<>>
    /\ errors' = AfterFailedBatch(errors, <<request[ReportError]>> \o batch)
    /\ lastSnapshot' = Zeros
    /\ Complete(ReportError, "failed")
    /\ UNCHANGED <<env, id, enabled, closed, jobConfigs, jobs, counters,
                   metrics, versionCheckResult, notifyVars, feedback, accepted>>
    /\ Observe

(***************************************************************************)
(* Specifications                                                          *)
(***************************************************************************)
\* init() and close()
Lifecycle ==
    \/ InitSchedule
    \/ InitRunJob
    \/ Close

\* timers and responses
EventLoop ==
    \/ Tick
    \/ \E name \in ReportActions : TimerFires(name)
    \/ \E result \in Responses : VersionCheckSucceeds(result)
    \/ \E name \in ReportActions : SnapshotRequestSucceeds(name)
    \/ \E name \in ReportActions : RequestFails(name)
    \/ ErrorRequestSucceeds
    \/ ErrorRequestFails

HostErrors == \E error \in ErrorInputs : AcceptError(error)

HostSnapshots ==
    \/ \E value \in SnapshotValues : AcceptCounters(value)
    \/ \E value \in SnapshotValues : AcceptMetrics(value)

HostFeedback ==
    \/ \E data \in FeedbackData : ReportFeedback(data)
    \/ FeedbackCompletes

\* the scheduler and the error aggregator, for a host that reports errors
Next ==
    \/ Lifecycle
    \/ EventLoop
    \/ HostErrors

Spec == Init /\ [][Next]_vars

\* the same, for a host that also sends feedback
NextFeedback ==
    \/ Lifecycle
    \/ EventLoop
    \/ HostErrors
    \/ HostFeedback

SpecFeedback == Init /\ [][NextFeedback]_vars

\* every operation of the client but close(), results not recorded
InitHost ==
    /\ \E e \in Environments : Constructed(e)
    /\ probe = NoProbe

NextHost ==
    \/ InitSchedule
    \/ InitRunJob
    \/ EventLoop
    \/ HostErrors
    \/ HostSnapshots
    \/ HostFeedback

SpecHost == InitHost /\ [][NextHost]_vars

\* the client is initialised and its error job is at rest: nothing pending,
\* nothing in flight, the timer of the next interval armed
ErrorJobIdle ==
    /\ initPc.at = "done"
    /\ RunJobGuard(ReportError)
    /\ ~jobRuntime[ReportError].isRunning
    /\ errors = <<>>
    /\ timers[ReportError] # NoTimer

\* the host of the burst scenario: one burst of at most MaxBurst errors of one
\* signature, begun on an idle client and over when the first flush completes
BurstError(error) ==
    /\ probe.n < MaxBurst
    /\ \/ probe.phase = "idle" /\ ErrorJobIdle
       \/ probe.phase = "burst" /\ lastSnapshot[_getErrorString(error)] > 0
    /\ AcceptError(error)

InitBurst ==
    /\ Constructed(BurstEnvironment)
    /\ probe = ProbeBurst

NextBurst ==
    \/ InitSchedule
    \/ InitRunJob
    \/ EventLoop
    \/ \E error \in ErrorInputs : BurstError(error)

SpecBurst == InitBurst /\ [][NextBurst]_vars

\* the host of the early scenario: at most MaxBurst errors, the undefined
\* error before init is called and never after it, the other errors after
EarlyError(error) ==
    /\ probe.n < MaxBurst
    /\ error = NullError <=> initPc.at = "new"
    /\ AcceptError(error)

NextEarly ==
    \/ InitSchedule
    \/ InitRunJob
    \/ EventLoop
    \/ \E error \in ErrorInputs : EarlyError(error)

SpecEarly == InitBurst /\ [][NextEarly]_vars

\* the main specification with an HTTP client that may throw
InitThrow ==
    /\ Constructed(ThrowEnvironment)
    /\ probe = ProbeResults

SpecThrow == InitThrow /\ [][Next]_vars

\* the main specification for a client with one job disabled
InitDisabled ==
    /\ \E e \in OneJobDisabled : Constructed(e)
    /\ probe = NoProbe

SpecDisabled == InitDisabled /\ [][Next]_vars

\* the snapshot store and its two jobs, with the clock
InitData ==
    /\ Constructed(DataEnvironment)
    /\ probe = ProbeClock

NextData ==
    \/ Lifecycle
    \/ Tick
    \/ \E name \in ReportActions : TimerFires(name)
    \/ \E result \in Responses : VersionCheckSucceeds(result)
    \/ \E name \in ReportActions : SnapshotRequestSucceeds(name)
    \/ \E name \in ReportActions : RequestFails(name)
    \/ \E value \in SnapshotInputs : AcceptCounters(value)
    \/ \E value \in SnapshotInputs : AcceptMetrics(value)

SpecData == InitData /\ [][NextData]_vars

\* init() under every combination of interval overrides
InitInterval ==
    /\ \E e \in IntervalEnvironments : Constructed(e)
    /\ probe = NoProbe

NextInterval ==
    \/ Lifecycle
    \/ \E result \in Responses : VersionCheckSucceeds(result)
    \/ \E name \in ReportActions : RequestFails(name)

SpecInterval == InitInterval /\ [][NextInterval]_vars

\* the main specification with the clock
InitClock ==
    /\ Constructed(ClockEnvironment)
    /\ probe = [NoProbe EXCEPT !.clock = TRUE]

SpecClock == InitClock /\ [][Next]_vars

\* every operation of the client but reportFeedback, results not recorded
NextLifetime ==
    \/ Next
    \/ HostSnapshots

SpecLifetime == InitHost /\ [][NextLifetime]_vars

\* a client that is initialized and never closed, on which time passes, due
\* timers fire and every request gets its response or fails
InitLive ==
    /\ Constructed(ClockEnvironment)
    /\ probe = NoProbe

NextLive ==
    \/ InitSchedule
    \/ InitRunJob
    \/ EventLoop
    \/ HostErrors

SpecLive ==
    /\ InitLive
    /\ [][NextLive]_vars
    /\ WF_vars(InitSchedule)
    /\ WF_vars(InitRunJob)
    /\ WF_vars(Tick)
    /\ \A name \in ReportActions : WF_vars(TimerFires(name))
    /\ WF_vars(\/ \E result \in Responses : VersionCheckSucceeds(result)
               \/ RequestFails(VersionCheck))
    /\ \A name \in {ReportCounters, ReportMetrics} :
          WF_vars(SnapshotRequestSucceeds(name) \/ RequestFails(name))
    /\ WF_vars(ErrorRequestSucceeds \/ ErrorRequestFails)

\* a host that calls init() again and accepts nothing: every request of a
\* job carries the same payload, so the requests of a job that are in flight
\* are given by their number
NextAgain ==
    \/ InitSchedule
    \/ InitRunJob
    \/ InitAgain
    \/ Tick
    \/ \E name \in ReportActions : TimerFires(name)
    \/ \E result \in Responses : VersionCheckSucceeds(result)
    \/ \E name \in ReportActions : SnapshotRequestSucceeds(name)
    \/ \E name \in ReportActions : RequestFails(name)

SpecAgain == InitLive /\ [][NextAgain]_vars

\* the version check and its listeners
InitNotify ==
    /\ Constructed(NotifyEnvironment)
    /\ probe = ProbeResults

NextNotify ==
    \/ Lifecycle
    \/ Tick
    \/ \E name \in ReportActions : TimerFires(name)
    \/ \E result \in NotifyResponses : VersionCheckSucceeds(result)
    \/ \E name \in ReportActions : RequestFails(name)
    \/ \E l \in ListenerIds : OnNotificationsChanged(l)
    \/ ListenerRuns
    \/ VersionCheckCompletes

SpecNotify == InitNotify /\ [][NextNotify]_vars

(***************************************************************************)
(* C1                                                                      *)
(***************************************************************************)
\* C1: for every job, at most one execution of its body is in flight
AtMostOneExecution == \A name \in ReportActions : inflight[name] <= 1

\* a trigger arrived while the error job was running and was turned into a timer
WitnessGuardedTrigger ==
    /\ initPc.at = "done"
    /\ inflight[ReportError] = 1
    /\ jobRuntime[ReportError].isRunning
    /\ timers[ReportError] # NoTimer

(***************************************************************************)
(* C2                                                                      *)
(***************************************************************************)
\* C2: without the identity token or the base address no request of any
\* kind is ever in flight
NoRequestWhenUnconfigured ==
    (~Truthy(env.WORLDVIOUS_ID) \/ ~Truthy(env.WORLDVIOUS_URL))
        => /\ \A name \in ReportActions : request[name] = NoRequest
           /\ feedback = <<>>

(***************************************************************************)
(* C3                                                                      *)
(***************************************************************************)
\* C3: a job whose enabled flag is false never runs and never has a timer
DisabledJobNeverRuns ==
    \A name \in ReportActions :
        ~jobConfigs[name].enabled =>
            /\ timers[name] = NoTimer
            /\ inflight[name] = 0
            /\ ~jobRuntime[name].isRunning
            /\ request[name] = NoRequest

\* the error job is disabled by its flag alone, init is done, an error was
\* accepted and asked for a run-now, and the other jobs do run
WitnessDisabledErrorJob ==
    /\ enabled
    /\ ~jobConfigs[ReportError].enabled
    /\ initPc.at = "done"
    /\ isFirstErrorReported
    /\ errors # <<>>
    /\ timers[ReportCounters] # NoTimer

(***************************************************************************)
(* C4                                                                      *)
(***************************************************************************)
\* C4, for the requests of the jobs: once close() has been called no job
\* issues a new request
NoRequestAfterClose ==
    [][closed => \A name \in ReportActions : ~SendsRequest(name)]_vars

(***************************************************************************)
(* C5                                                                      *)
(***************************************************************************)
\* C5: the count of every payload is the number of acceptError calls with
\* its signature that went into the batch, and the pending count of every
\* signature is the number of calls since the batch was built
CountsMatchAcceptedCalls ==
    /\ \A i \in DOMAIN BatchInFlight :
          BatchInFlight[i].count = lastSnapshot[BatchInFlight[i].error]
    /\ \A s \in Signatures : ErrorCount(errors, s) = accepted[s]

\* a batch with two signatures, one of them counted twice
WitnessTwoSignatures ==
    /\ Len(BatchInFlight) = 2
    /\ BatchInFlight[1].count = 2
    /\ BatchInFlight[2].count = 1

(***************************************************************************)
(* C6                                                                      *)
(***************************************************************************)
\* C6 as stated, read for an open client whose error job is enabled and
\* registered by init: an acceptError call that finds the first-error latch
\* unset always starts an execution of the report-error job within the call
FirstErrorAlwaysRunsNow ==
    [][(AcceptStep /\ ~isFirstErrorReported /\ RunJobGuard(ReportError))
          => StartsBody(ReportError)]_vars

\* C6, amended: an acceptError call that finds the latch unset starts an
\* execution within the call exactly when the client is open, the job is
\* enabled and registered by init, and the job is not already running
FirstErrorRunsNowWhenIdle ==
    [][(AcceptStep /\ ~isFirstErrorReported) =>
          (StartsBody(ReportError) <=>
              (RunJobGuard(ReportError) /\ ~jobRuntime[ReportError].isRunning))]_vars

\* the first error after a re-arm started a flush at once
WitnessFirstErrorRunsNow ==
    /\ isFirstErrorReported
    /\ jobRuntime[ReportError].isRunning
    /\ timers[ReportError] = NoTimer
    /\ request[ReportError] # NoRequest
    /\ request[ReportError].count = 1
    /\ initPc.at = "done"

(***************************************************************************)
(* C7                                                                      *)
(***************************************************************************)
\* C7: in a burst of n >= 2 errors of one signature on an idle client the
\* first report/error request carries count 1, the second one is sent one
\* error interval after the first flush completed and carries count n-1, and
\* there is no other report/error request
BurstIsFlushedTwice ==
    LET f == probe.flushes
        interval == jobs[ReportError].seconds
    IN  /\ Len(f) <= 2
        /\ Len(f) >= 1 => f[1].count = 1
        /\ Len(f) = 2 =>
              /\ probe.phase = "after"
              /\ probe.n >= 2
              /\ f[2].count = probe.n - 1
              /\ f[2].delay = interval
        /\ (probe.phase = "after" /\ probe.n >= 2 /\ probe.sinceDone > interval)
              => Len(f) = 2

\* a burst of three errors: count 1 at once, count 2 three seconds after the
\* first flush completed
WitnessBurstOfThree ==
    /\ probe.n = 3
    /\ Len(probe.flushes) = 2
    /\ probe.flushes[2].count = 2
    /\ probe.flushes[2].delay = 3
    /\ jobs[ReportError].seconds = 3

(***************************************************************************)
(* C8                                                                      *)
(***************************************************************************)
\* the pending map at the moment a step builds a batch: the map with the
\* error of the call recorded when the step is an acceptError call
MapAtBuild ==
    IF AcceptStep
    THEN RecordError(errors, CHOOSE s \in Signatures : AcceptStepOf(s))
    ELSE errors

\* C8: a batch holds exactly the records of the pending map at the moment it
\* is built and leaves the map empty; an acceptError call made while the
\* batch is being sent changes the new map only, no count of the batch
BatchIsSnapshot ==
    [][/\ StartsBody(ReportError) =>
            /\ Len(BatchInFlight') = Len(MapAtBuild)
            /\ \A i \in DOMAIN MapAtBuild :
                  /\ BatchInFlight'[i].error = MapAtBuild[i].error
                  /\ BatchInFlight'[i].count = MapAtBuild[i].count
            /\ errors' = <<>>
       /\ (AcceptStep /\ BatchInFlight # <<>>) =>
            /\ BatchInFlight' = BatchInFlight
            /\ errors' = MapAtBuild]_vars

\* a signature is in the batch being sent with count 2 and, accepted again
\* during the sending, in the new map with count 1
WitnessNewMapDuringBatch ==
    /\ Len(BatchInFlight) = 2
    /\ errors # <<>>
    /\ errors[1].error = BatchInFlight[1].error
    /\ errors[1].count = 1
    /\ BatchInFlight[1].count = 2

(***************************************************************************)
(* C9                                                                      *)
(***************************************************************************)
\* the step is the failure of a request of the error batch
BatchFails ==
    /\ request[ReportError] # NoRequest
    /\ lastResult' = [job |-> ReportError, status |-> "failed"]

\* C9: when a request of an error batch fails the batch is dropped and the
\* pending map keeps only what was accepted after the batch was built; the
\* next acceptError of a signature that was only in the batch counts from 1
FailedBatchIsLost ==
    [][/\ BatchFails =>
            /\ batch' = <<>>
            /\ errors' = errors
            /\ \A s \in Signatures : ErrorCount(errors', s) = accepted[s]
       /\ \A s \in Signatures :
            (lastResult = [job |-> ReportError, status |-> "failed"]
                /\ AcceptStepOf(s) /\ accepted[s] = 0)
                => ErrorCount(MapAtBuild, s) = 1]_vars

\* a batch has failed and the map holds an error accepted during the sending
WitnessFailedBatch ==
    /\ lastResult = [job |-> ReportError, status |-> "failed"]
    /\ errors # <<>>
    /\ batch = <<>>
    /\ ~jobRuntime[ReportError].isRunning

(***************************************************************************)
(* C10                                                                     *)
(***************************************************************************)
\* C10: after a job body has failed, by throwing or by a rejected result,
\* the running flag of the job is cleared and, unless the client is closed,
\* its timer is armed for the next interval
FailedBodyIsRearmed ==
    \A name \in ReportActions :
        (lastResult.job = name /\ lastResult.status \in {"failed", "threw"})
            => /\ ~jobRuntime[name].isRunning
               /\ closed \/ timers[name] # NoTimer

(***************************************************************************)
(* C11                                                                     *)
(***************************************************************************)
\* the registered listeners
Registered == {listeners[i] : i \in DOMAIN listeners}

\* the step is the call onNotificationsChanged(l)
Registers(l) == l \notin Registered /\ listeners' # listeners /\ l = listeners'[Len(listeners')]

\* the invocations of l that are queued in q
Pending(q, l) ==
    Cardinality({i \in DOMAIN q : q[i].kind = "listener" /\ q[i].listener = l})

Expected(l) ==
    <<catchUp[l].held>> \o SubSeq(history, catchUp[l].since + 1, Len(history))

Received(l) == [i \in DOMAIN calls[l] |-> calls[l][i].state]

\* C12: the invocations a registered listener has received, with those still
\* queued for it, are its catch-up call followed by one call per successful
\* version response since, each with the state of that response; a listener
\* that is not registered is never invoked
OneCallPerResponse ==
    \A l \in ListenerIds :
        IF l \in Registered
        THEN /\ Len(Received(l)) + Pending(microtasks, l) = Len(Expected(l))
             /\ Received(l) = SubSeq(Expected(l), 1, Len(Received(l)))
        ELSE calls[l] = <<>>

\* l1 got its catch-up call and two responses, l2 registered between the
\* responses and got the first response as catch-up and then the second
WitnessTwoResponses ==
    /\ Received("l1") = <<<<>>, <<NewVersionItem>>, <<FeedbackItem>>>>
    /\ Received("l2") = <<<<NewVersionItem>>, <<FeedbackItem>>>>

(***************************************************************************)
(* C13                                                                     *)
(***************************************************************************)
\* the step is the arrival of a successful response of report/version
VersionResponseArrives ==
    /\ request[VersionCheck] # NoRequest
    /\ request'[VersionCheck] = NoRequest
    /\ lastResult'.status # "failed"

\* C13: the notification state changes only when a successful response
\* arrives, and is then exactly the item sequence of that response
StateIsLatestResponse ==
    [][/\ versionCheckResult' # versionCheckResult => VersionResponseArrives
       /\ (VersionResponseArrives /\ listeners # <<>>) =>
             /\ history' = Append(history, versionCheckResult')
             /\ versionCheckResult' \in NotifyResponses]_vars

\* a response with a new version was followed by a response without items,
\* which cleared the state
WitnessStateCleared ==
    /\ history = <<<<NewVersionItem>>, <<>>>>
    /\ versionCheckResult = <<>>

(***************************************************************************)
(* C14                                                                     *)
(***************************************************************************)
\* the step is an invocation of l that throws or whose result rejects
ListenerFails(l) ==
    /\ Len(calls'[l]) = Len(calls[l]) + 1
    /\ calls'[l][Len(calls'[l])].outcome # "ok"

\* the continuations queued in q that complete the version check
Completions(q) == Cardinality({i \in DOMAIN q : q[i].kind = "complete"})

\* C14: an invocation that throws or rejects leaves the invocations queued
\* for the other listeners and the completion of the version check queued,
\* and changes nothing of the scheduler; the completion clears the running
\* flag and arms the timer of version-check unless the client is closed
ListenerFailureIsContained ==
    [][/\ \A l \in ListenerIds :
            ListenerFails(l) =>
                /\ \A k \in ListenerIds \ {l} :
                      Pending(microtasks', k) = Pending(microtasks, k)
                /\ Completions(microtasks') = Completions(microtasks)
                /\ UNCHANGED <<timers, jobRuntime, request, inflight,
                               listeners, versionCheckResult, initPc>>
       /\ Completions(microtasks') < Completions(microtasks) =>
            /\ ~jobRuntime'[VersionCheck].isRunning
            /\ closed \/ timers'[VersionCheck] # NoTimer]_vars

\* in the fan-out of a response the first listener threw, the second one was
\* invoked with the same state, and the version check completed and re-armed
WitnessListenerThrew ==
    /\ listeners = <<"l1", "l2">>
    /\ history # <<>>
    /\ microtasks = <<>>
    /\ Len(calls["l1"]) = 1 + Len(history)
    /\ calls["l1"][Len(calls["l1"])].outcome = "throws"
    /\ Len(calls["l2"]) >= 2
    /\ calls["l2"][Len(calls["l2"])].state = history[Len(history)]
    /\ ~jobRuntime[VersionCheck].isRunning
    /\ timers[VersionCheck] # NoTimer

(***************************************************************************)
(* C15                                                                     *)
(***************************************************************************)
\* C15: with identity and address present, the job whose disable flag is set
\* never has a request, an execution or a timer, and every other job, once
\* init is done and until close, is running or has its timer armed
OnlyDisabledJobIsOff ==
    \A name \in ReportActions :
        IF Truthy(env.disable[name])
        THEN /\ request[name] = NoRequest
             /\ inflight[name] = 0
             /\ timers[name] = NoTimer
        ELSE (enabled /\ initPc.at = "done" /\ ~closed) =>
                (jobRuntime[name].isRunning \/ timers[name] # NoTimer)

\* report-counters is disabled and the three other jobs have requests in
\* flight
WitnessOthersStillReport ==
    /\ Truthy(env.disable[ReportCounters])
    /\ initPc.at = "done"
    /\ request[VersionCheck] # NoRequest
    /\ request[ReportError] # NoRequest
    /\ request[ReportMetrics] # NoRequest
    /\ request[ReportCounters] = NoRequest

(***************************************************************************)
(* C16                                                                     *)
(***************************************************************************)
\* the field of a request that carries the snapshot of job name
SnapshotOf(r, name) == IF name = ReportCounters THEN r.counters ELSE r.metrics

\* the snapshot stored for job name
Stored(name) == IF name = ReportCounters THEN counters ELSE metrics

\* C16: an execution of report-counters or report-metrics sends one request,
\* made when the body starts, with the snapshot stored at that moment, and
\* no other request before it completes
SnapshotIsSentAsStored ==
    [][\A name \in {ReportCounters, ReportMetrics} :
          /\ StartsBody(name) =>
                /\ request[name] = NoRequest
                /\ request'[name].kind = (IF name = ReportCounters THEN "counters"
                                                               ELSE "metrics")
                /\ SnapshotOf(request'[name], name) = Stored(name)
          /\ request[name] # NoRequest =>
                \/ request'[name] = request[name]
                \/ request'[name] = NoRequest /\ Completes(name)]_vars

\* an execution of report-counters, started two seconds after the job was
\* armed, has sent the counters stored at its start, and the host has
\* replaced them while that request is in flight
WitnessSnapshotSentAgain ==
    /\ request[ReportCounters] # NoRequest
    /\ request[ReportCounters].counters = "{foo1:bar1}"
    /\ counters = "{foo1:bar2}"
    /\ probe.since[ReportCounters] = 2

(***************************************************************************)
(* C17                                                                     *)
(***************************************************************************)
\* C17: the failure of a counters or metrics request changes neither stored
\* snapshot and arms the job for a full interval; the execution that this
\* timer starts begins exactly one interval after the completion and sends
\* the snapshot stored then
FailedSnapshotIsSentAgain ==
    [][\A name \in {ReportCounters, ReportMetrics} :
          /\ (request[name] # NoRequest
                /\ lastResult' = [job |-> name, status |-> "failed"]) =>
                /\ counters' = counters
                /\ metrics' = metrics
                /\ closed \/ timers'[name] = jobs[name].seconds
          /\ (TimerStarts(name) /\ probe.since[name] >= 0) =>
                /\ probe.since[name] = jobs[name].seconds
                /\ SnapshotOf(request'[name], name) = Stored(name)]_vars

\* the request of report-metrics has just failed: the metrics are kept and
\* the job is armed for its interval of two seconds
WitnessFailedMetrics ==
    /\ lastResult = [job |-> ReportMetrics, status |-> "failed"]
    /\ metrics = "{foo1:bar2}"
    /\ timers[ReportMetrics] = 2
    /\ ~jobRuntime[ReportMetrics].isRunning

(***************************************************************************)
(* C18                                                                     *)
(***************************************************************************)
\* the step executes the body of job name: a request is sent, or the error
\* map is found empty
Executes(name) ==
    \/ StartsBody(name)
    \/ /\ name = ReportError
       /\ ~jobRuntime[name].isRunning
       /\ lastResult' = [job |-> name, status |-> "ok"]

\* C18: on an open client init starts version-check in its first step and
\* only arms the other enabled jobs, each for its interval; when init
\* resolves every enabled job has a timer; without accepted errors the three
\* other jobs execute only at the expiry of their timer, one interval after
\* they were first armed or after their previous completion
InitArmsEveryJob ==
    [][/\ (initPc.at = "run" /\ initPc' # initPc
             /\ RunJobGuard(JobOrder[initPc.i])) =>
            LET name == JobOrder[initPc.i]
            IN  IF name = VersionCheck
                THEN Executes(name) /\ timers'[name] = NoTimer
                ELSE ~Executes(name) /\ timers'[name] = jobs[name].seconds
       /\ (initPc.at # "done" /\ initPc'.at = "done" /\ ~closed) =>
            \A name \in ReportActions :
                IsEnabled(name) => timers'[name] = jobs[name].seconds
       /\ \A name \in ReportActions \ {VersionCheck} :
            Executes(name) => /\ timers[name] = 0
                              /\ probe.since[name] = jobs[name].seconds]_vars

\* init has just resolved: version-check has completed, every job is armed
\* for its interval and only version-check has executed
WitnessInitResolved ==
    /\ initPc.at = "done"
    /\ \A name \in ReportActions : timers[name] = jobs[name].seconds
    /\ probe.since[VersionCheck] = 0
    /\ \A name \in ReportActions \ {VersionCheck} : probe.since[name] = 0
    /\ jobs[ReportCounters].seconds = 2

(***************************************************************************)
(* C19                                                                     *)
(***************************************************************************)
\* the override of job name is present and parses, as Number.parseInt
\* parses, to an integer that is not negative
OverrideIsNonNegative(name) ==
    /\ env.timeout[name] # <<>>
    /\ ~parseInt(env.timeout[name]).nan
    /\ parseInt(env.timeout[name]).val >= 0

\* C19: the interval of a registered job is the value of its override when
\* that is present and parses to a non-negative integer, and the compiled-in
\* default otherwise
IntervalIsOverrideOrDefault ==
    \A name \in ReportActions :
        jobs[name].registered =>
            jobs[name].seconds =
                IF OverrideIsNonNegative(name)
                THEN parseInt(env.timeout[name]).val
                ELSE delaySeconds(name)

(***************************************************************************)
(* C20                                                                     *)
(***************************************************************************)
\* C20 as stated: an execution started by the timer of a job never starts
\* less than the interval after the previous completion of that job
TimerStartAfterInterval ==
    [][\A name \in ReportActions :
          TimerStarts(name) => probe.since[name] >= jobs[name].seconds]_vars

\* C20, amended: that holds for version-check, report-counters and
\* report-metrics; the timer of every job is armed for the full interval,
\* runs down with the seconds and is otherwise only cancelled
TimerStartAfterIntervalButErrors ==
    [][\A name \in ReportActions :
          /\ (TimerStarts(name) /\ name # ReportError) =>
                probe.since[name] >= jobs[name].seconds
          /\ timers'[name] # timers[name] =>
                \/ timers'[name] = NoTimer
                \/ timers'[name] = jobs[name].seconds
                \/ timers'[name] = timers[name] - 1 /\ SecondPasses]_vars

\* the timer of version-check has started an execution one interval after
\* the completion of the previous one
WitnessTimerStart ==
    /\ initPc.at = "done"
    /\ request[VersionCheck] # NoRequest
    /\ probe.since[VersionCheck] = jobs[VersionCheck].seconds
    /\ timers[VersionCheck] = NoTimer

(***************************************************************************)
(* C21                                                                     *)
(***************************************************************************)
\* the step is a run-now of job name that cancels its pending timer
CancelsTimer(name) ==
    /\ name = ReportError
    /\ AcceptStep
    /\ TriggersRunNow(isFirstErrorReported)
    /\ timers[name] # NoTimer

\* the step is the callback of the timer of job name
TimerCallback(name) ==
    /\ timers[name] = 0
    /\ timers'[name] # 0
    /\ ~closed'
    /\ ~CancelsTimer(name)

\* C21: `timers` holds at most one handle per job and a handle is never
\* overwritten: a pending timer only runs down with the seconds, or is
\* removed when it fires, when a run-now cancels it and when close clears
\* it; a fresh timer is armed only when the job has none, after a removal
\* included; after close no job has a timer
OneTimerPerJob ==
    [][\A name \in ReportActions :
          /\ (timers[name] # NoTimer /\ timers'[name] # timers[name]) =>
                \/ timers'[name] = NoTimer
                \/ timers'[name] = timers[name] - 1 /\ SecondPasses
                \/ /\ timers'[name] = TimerDelay(jobs[name].seconds)
                   /\ jobRuntime' = jobRuntime
                   /\ CancelsTimer(name) \/ TimerCallback(name)
          /\ TimerCallback(name) =>
                \/ StartsBody(name) /\ timers'[name] = NoTimer
                \/ ~StartsBody(name) /\ timers'[name] = TimerDelay(jobs[name].seconds)
          /\ (CancelsTimer(name) /\ StartsBody(name)) => timers'[name] = NoTimer
          /\ closed' => timers'[name] = NoTimer]_vars

\* report-error has just completed an execution during which its timer was
\* armed and ran down: the completion left that timer in place
WitnessTimerKept ==
    /\ lastResult.job = ReportError
    /\ lastResult.status \in {"ok", "failed"}
    /\ request[ReportError] = NoRequest
    /\ errors # <<>>
    /\ timers[ReportError] = 0

(***************************************************************************)
(* C22                                                                     *)
(***************************************************************************)
\* C22: a timer callback or a run-now that finds the job running invokes no
\* body and changes neither the requests in flight nor the payloads waiting;
\* it leaves the job with a timer for its full interval; the completion of
\* the running execution starts no further execution
SkippedNotQueued ==
    [][\A name \in ReportActions :
          LET runNow == /\ name = ReportError
                        /\ AcceptStep
                        /\ TriggersRunNow(isFirstErrorReported)
                        /\ RunJobGuard(name)
          IN  /\ (jobRuntime[name].isRunning /\ (runNow \/ TimerCallback(name))) =>
                    /\ ~StartsBody(name)
                    /\ request' = request
                    /\ batch' = batch
                    /\ inflight' = inflight
                    /\ jobRuntime' = jobRuntime
                    /\ timers'[name] = TimerDelay(jobs[name].seconds)
              /\ Completes(name) =>
                    /\ ~StartsBody(name)
                    /\ request'[name] = NoRequest]_vars

\* a trigger of report-error has just been skipped: the batch is still in
\* flight and the job has a timer for its interval
WitnessSkippedTrigger ==
    /\ lastResult = [job |-> ReportError, status |-> "skipped"]
    /\ jobRuntime[ReportError].isRunning
    /\ request[ReportError] # NoRequest
    /\ timers[ReportError] = TimerDelay(jobs[ReportError].seconds)

(***************************************************************************)
(* C23                                                                     *)
(***************************************************************************)
\* C23: once the client is closed no job has a timer, no step executes a
\* job body, whether from a timer or from acceptError, and the completion
\* of an execution that was in flight clears isRunning and arms nothing
QuietAfterClose ==
    [][\A name \in ReportActions :
          /\ closed' => timers'[name] = NoTimer
          /\ closed => /\ ~Executes(name)
                       /\ ~TimerCallback(name)
                       /\ jobRuntime'[name].isRunning => jobRuntime[name].isRunning
          /\ (closed /\ Completes(name)) =>
                /\ ~jobRuntime'[name].isRunning
                /\ timers' = timers
                /\ isFirstErrorReported' = isFirstErrorReported]_vars

\* report-counters was in flight when the client was closed and has now
\* completed; an accepted error waits in the map with the latch set and no
\* flush in flight
WitnessCompletedAfterClose ==
    /\ closed
    /\ lastResult = [job |-> ReportCounters, status |-> "ok"]
    /\ ~jobRuntime[ReportCounters].isRunning
    /\ errors # <<>>
    /\ isFirstErrorReported
    /\ request[ReportError] = NoRequest

(***************************************************************************)
(* C24                                                                     *)
(***************************************************************************)
\* C24: the hook of report-error runs with every fresh timer of the job and
\* at no other time: the latch is unset after every step that arms the
\* timer, it is unset by such steps only, and a run-now that starts the
\* body arms nothing and leaves the latch as acceptError has set it
HookWithEveryArm ==
    [][LET name == ReportError
           arms == /\ timers'[name] # NoTimer
                   /\ \/ timers[name] = NoTimer
                      \/ TimerCallback(name)
                      \/ CancelsTimer(name)
       IN  /\ arms => /\ ~isFirstErrorReported'
                      /\ timers'[name] = TimerDelay(jobs[name].seconds)
           /\ (isFirstErrorReported /\ ~isFirstErrorReported') => arms
           /\ (AcceptStep /\ StartsBody(name)) =>
                 /\ isFirstErrorReported'
                 /\ timers'[name] = NoTimer]_vars

\* a flush has just completed and armed the timer: the latch set by the
\* error that started the flush is unset again, while errors accepted
\* during the flush wait in the map
WitnessLatchResetAtArm ==
    /\ lastResult = [job |-> ReportError, status |-> "ok"]
    /\ timers[ReportError] = TimerDelay(jobs[ReportError].seconds)
    /\ ~isFirstErrorReported
    /\ errors # <<>>
    /\ request[ReportError] = NoRequest

(***************************************************************************)
(* C25                                                                     *)
(***************************************************************************)
\* C25: a run-now of report-error that finds the job idle with a pending
\* timer removes that timer and starts the body in the same call: exactly
\* one execution is in flight afterwards and the job has no timer that
\* could start another
RunNowPreemptsTimer ==
    [][LET name == ReportError
       IN  (CancelsTimer(name) /\ RunJobGuard(name)
                /\ ~jobRuntime[name].isRunning) =>
              /\ StartsBody(name)
              /\ inflight'[name] = 1
              /\ jobRuntime'[name].isRunning
              /\ timers'[name] = NoTimer
              /\ \A other \in ReportActions \ {name} :
                    timers'[other] = timers[other]]_vars

\* the first error after an arm found another error waiting and the
\* timer pending: its run-now sends both and the timer is gone
WitnessTimerPreempted ==
    /\ ~closed
    /\ isFirstErrorReported
    /\ jobRuntime[ReportError].isRunning
    /\ timers[ReportError] = NoTimer
    /\ request[ReportError] # NoRequest
    /\ request[ReportError].count = 2

(***************************************************************************)
(* C26                                                                     *)
(***************************************************************************)
\* C26: an acceptError call that finds the latch set adds one to the
\* pending count of its signature, a missing entry counting as zero, and
\* changes nothing else: no count of another signature, no timer, no
\* execution, no request and not the latch
LatchedErrorOnlyCounts ==
    [][\A s \in Signatures :
          (AcceptStepOf(s) /\ isFirstErrorReported) =>
             /\ ErrorCount(errors', s) = ErrorCount(errors, s) + 1
             /\ \A o \in Signatures \ {s} :
                   ErrorCount(errors', o) = ErrorCount(errors, o)
             /\ timers' = timers
             /\ jobRuntime' = jobRuntime
             /\ inflight' = inflight
             /\ request' = request
             /\ batch' = batch
             /\ isFirstErrorReported']_vars

\* two errors of one signature were accepted while a flush is in flight:
\* they wait in the map with count 2, no timer is armed and the latch is set
WitnessCountedDuringFlush ==
    /\ isFirstErrorReported
    /\ jobRuntime[ReportError].isRunning
    /\ timers[ReportError] = NoTimer
    /\ \E s \in Signatures : ErrorCount(errors, s) = 2

(***************************************************************************)
(* C27                                                                     *)
(***************************************************************************)
\* C27: a report/error request is handed to the transport either when a
\* batch is built, and then none is in flight, or in the step in which the
\* previous request of the batch succeeds, and then it is the next payload
\* waiting; the payloads of a batch have pairwise distinct signatures and
\* each success takes exactly one of them
OneRequestAtATime ==
    [][/\ SendsRequest(ReportError) =>
            \/ /\ request[ReportError] = NoRequest
               /\ StartsBody(ReportError)
            \/ /\ request[ReportError] # NoRequest
               /\ batch # <<>>
               /\ request'[ReportError] = Head(batch)
               /\ batch' = Tail(batch)
               /\ ~AcceptStep
       /\ batch' # batch =>
            \/ StartsBody(ReportError)
            \/ batch' = Tail(batch) /\ SendsRequest(ReportError)
            \/ batch' = <<>> /\ Completes(ReportError)
       /\ \A i, j \in DOMAIN BatchInFlight' :
            i # j => BatchInFlight'[i].error # BatchInFlight'[j].error
       /\ StartsBody(ReportError) =>
            Len(BatchInFlight') =
                Cardinality({s \in Signatures : ErrorCount(MapAtBuild, s) > 0})]_vars

\* a batch of two signatures was built and its first request has succeeded:
\* the second one is in flight and nothing is waiting
WitnessSecondOfBatch ==
    /\ Cardinality({s \in Signatures : lastSnapshot[s] > 0}) = 2
    /\ jobRuntime[ReportError].isRunning
    /\ request[ReportError] # NoRequest
    /\ batch = <<>>

(***************************************************************************)
(* C28                                                                     *)
(***************************************************************************)
\* C28: when the timer of report-error fires on an idle job with an empty
\* map, no request is sent, the execution ends at once with success, the
\* job is not left running and has a timer for its full interval, with the
\* latch unset as after any other arm
EmptyFlushIsRearmed ==
    [][(TimerCallback(ReportError) /\ errors = <<>>
            /\ ~jobRuntime[ReportError].isRunning) =>
          /\ request' = request
          /\ batch' = batch
          /\ inflight' = inflight
          /\ errors' = <<>>
          /\ ~jobRuntime'[ReportError].isRunning
          /\ lastResult' = [job |-> ReportError, status |-> "ok"]
          /\ timers'[ReportError] = TimerDelay(jobs[ReportError].seconds)
          /\ ~isFirstErrorReported']_vars

\* no error was ever accepted and report-error has just run: it completed
\* with success, sent nothing and is armed for its interval of 3 seconds
WitnessEmptyFlush ==
    /\ probe.n = 0
    /\ lastResult = [job |-> ReportError, status |-> "ok"]
    /\ request[ReportError] = NoRequest
    /\ inflight[ReportError] = 0
    /\ timers[ReportError] = 3

(***************************************************************************)
(* C29                                                                     *)
(***************************************************************************)
\* C29: the failure of a report/version request leaves the notification
\* state and the record of responses as they were, queues no invocation and
\* makes none, clears the running flag and, unless the client is closed,
\* arms the timer of version-check for its full interval
FailedCheckChangesNothing ==
    [][(request[VersionCheck] # NoRequest
            /\ lastResult' = [job |-> VersionCheck, status |-> "failed"]) =>
          /\ versionCheckResult' = versionCheckResult
          /\ history' = history
          /\ microtasks' = microtasks
          /\ calls' = calls
          /\ listeners' = listeners
          /\ request'[VersionCheck] = NoRequest
          /\ ~jobRuntime'[VersionCheck].isRunning
          /\ closed \/ timers'[VersionCheck] =
                          TimerDelay(jobs[VersionCheck].seconds)]_vars

\* a response with a new version was delivered to the listener l1, and the
\* next check has just failed: the state is still that response, l1 got no
\* further call and version-check is armed
WitnessFailedCheck ==
    /\ lastResult = [job |-> VersionCheck, status |-> "failed"]
    /\ history = <<<<NewVersionItem>>>>
    /\ versionCheckResult = <<NewVersionItem>>
    /\ "l1" \in Registered
    /\ catchUp["l1"].since = 0
    /\ Len(calls["l1"]) = 2
    /\ microtasks = <<>>
    /\ timers[VersionCheck] = TimerDelay(jobs[VersionCheck].seconds)

(***************************************************************************)
(* C30                                                                     *)
(***************************************************************************)
\* C30: no step changes the global flag or the flag of a job; after every
\* step the global flag says that identity and address were both present at
\* construction, and the flag of a job that its disable variable was unset
\* as well
EnabledIsFixed ==
    [][/\ enabled' = enabled
       /\ jobConfigs' = jobConfigs
       /\ enabled' = (Truthy(env.WORLDVIOUS_ID) /\ Truthy(env.WORLDVIOUS_URL))
       /\ \A name \in ReportActions :
             jobConfigs'[name].enabled =
                (/\ Truthy(env.WORLDVIOUS_ID)
                 /\ Truthy(env.WORLDVIOUS_URL)
                 /\ ~Truthy(env.disable[name]))]_vars

\* a client with the error job disabled by its variable went through init,
\* a version response, the timer of report-counters, acceptError,
\* acceptCounters, acceptMetrics and close: the error job is still disabled
\* and the three others are still enabled
WitnessFlagsKept ==
    /\ enabled
    /\ Truthy(env.disable[ReportError])
    /\ initPc.at = "done"
    /\ versionCheckResult # <<>>
    /\ request[ReportCounters] # NoRequest
    /\ errors # <<>>
    /\ counters # InitialSnapshot
    /\ metrics # InitialSnapshot
    /\ closed
    /\ \A name \in ReportActions :
          jobConfigs[name].enabled <=> name # ReportError

(***************************************************************************)
(* C31                                                                     *)
(***************************************************************************)
\* C31: the interval of every registered job is greater than zero, whatever
\* its override is
IntervalIsPositive ==
    \A name \in ReportActions :
        jobs[name].registered => jobs[name].seconds > 0

(***************************************************************************)
(* C32                                                                     *)
(***************************************************************************)
\* C32: a timer callback of an idle job, and a run-now of report-error on
\* an open client with that job registered, enabled and idle, executes the
\* body of the job whatever the other jobs are doing, and leaves the
\* executions, requests and timers of the other jobs as they are
JobsAreIndependent ==
    [][\A name \in ReportActions :
          LET runNow == /\ name = ReportError
                        /\ AcceptStep
                        /\ TriggersRunNow(isFirstErrorReported)
                        /\ RunJobGuard(name)
          IN  (~jobRuntime[name].isRunning /\ (runNow \/ TimerCallback(name))) =>
                 /\ Executes(name)
                 /\ \A other \in ReportActions \ {name} :
                       /\ jobRuntime'[other] = jobRuntime[other]
                       /\ request'[other] = request[other]
                       /\ inflight'[other] = inflight[other]
                       /\ timers'[other] = timers[other]]_vars

\* the four jobs have an execution in flight at the same time
WitnessAllInFlight ==
    /\ \A name \in ReportActions :
          /\ jobRuntime[name].isRunning
          /\ request[name] # NoRequest
          /\ inflight[name] = 1
    /\ ~closed

(***************************************************************************)
(* C33                                                                     *)
(***************************************************************************)
\* C33: a step that replaces the stored counters, or the stored metrics,
\* stores a value given by the host and changes nothing else: not the other
\* snapshot, no timer, no running flag, no execution, no request, not the
\* pending map, the latch or the notification state
SnapshotCallsOnlyStore ==
    [][/\ counters' # counters =>
            /\ counters' \in SnapshotValues
            /\ metrics' = metrics
       /\ metrics' # metrics =>
            /\ metrics' \in SnapshotValues
            /\ counters' = counters
       /\ (counters' # counters \/ metrics' # metrics) =>
            UNCHANGED <<timers, jobRuntime, inflight, request, batch, errors,
                        isFirstErrorReported, versionCheckResult, closed,
                        jobs, initPc>>]_vars

\* the host has replaced the counters and not the metrics: an error flush is
\* in flight, report-counters waits for its timer and has sent nothing
WitnessCountersStored ==
    /\ counters \in SnapshotValues
    /\ metrics = InitialSnapshot
    /\ request[ReportError] # NoRequest
    /\ request[ReportCounters] = NoRequest
    /\ timers[ReportCounters] # NoTimer
    /\ ~jobRuntime[ReportCounters].isRunning

(***************************************************************************)
(* C34                                                                     *)
(***************************************************************************)
\* C34: on a client that is initialized and stays open, whenever errors are
\* pending a flush is eventually built from the map, which leaves it empty
ErrorsAreFlushed == (errors # <<>>) ~> (errors = <<>>)

\* two errors of one signature, accepted while the latch was set, are being
\* sent by a flush that the timer started; the map is empty
WitnessLatchedErrorsSent ==
    /\ initPc.at = "done"
    /\ ~isFirstErrorReported
    /\ jobRuntime[ReportError].isRunning
    /\ timers[ReportError] = NoTimer
    /\ request[ReportError] # NoRequest
    /\ request[ReportError].count = 2
    /\ errors = <<>>

(***************************************************************************)
(* C35                                                                     *)
(***************************************************************************)
\* C35: while report-error has a timer the latch is unset; the latch is set
\* only by an acceptError call, which leaves the job without a timer, and on
\* an open client with the job enabled, registered and idle that call
\* starts an execution
LatchUnsetWhileArmed ==
    [][/\ timers'[ReportError] # NoTimer => ~isFirstErrorReported'
       /\ (~isFirstErrorReported /\ isFirstErrorReported') =>
             /\ AcceptStep
             /\ timers'[ReportError] = NoTimer
       /\ (AcceptStep /\ timers[ReportError] # NoTimer
              /\ ~jobRuntime[ReportError].isRunning) =>
             /\ StartsBody(ReportError)
             /\ isFirstErrorReported']_vars

\* a trigger met a running flush and armed the timer: the timer is pending,
\* the latch is unset and an error waits in the map
WitnessArmedWithLatchUnset ==
    /\ initPc.at = "done"
    /\ jobRuntime[ReportError].isRunning
    /\ timers[ReportError] # NoTimer
    /\ ~isFirstErrorReported
    /\ errors # <<>>
    /\ lastResult = [job |-> ReportError, status |-> "skipped"]

(***************************************************************************)
(* C36                                                                     *)
(***************************************************************************)
\* C36: when an execution completes while its job has a timer, the timer
\* keeps the seconds it has left and the latch stays as it is
CompletionKeepsTimer ==
    [][\A name \in ReportActions :
          (jobRuntime[name].isRunning /\ Completes(name)
              /\ timers[name] # NoTimer) =>
             /\ timers'[name] = timers[name]
             /\ isFirstErrorReported' = isFirstErrorReported]_vars

\* a flush has just completed, and the timer armed one second earlier,
\* during the flush, has one of its two seconds left
WitnessOlderTimerKept ==
    /\ probe.since[ReportError] = 0
    /\ ~jobRuntime[ReportError].isRunning
    /\ timers[ReportError] = 1
    /\ jobs[ReportError].seconds = 2

(***************************************************************************)
(* C37                                                                     *)
(***************************************************************************)
\* C37: init waits for the execution of version-check it has started, and
\* leaves the wait only when that execution completes; during the wait
\* report-counters and report-metrics have no timer and no execution, and a
\* timer of report-error is armed only in an acceptError call or by the
\* completion of a flush
InitWaitsForVersionCheck ==
    [][initPc.at = "wait" =>
          /\ JobOrder[initPc.i] = VersionCheck
          /\ jobRuntime[VersionCheck].isRunning
          /\ \A name \in {ReportCounters, ReportMetrics} :
                /\ timers[name] = NoTimer
                /\ timers'[name] # NoTimer => initPc'.at # "wait"
                /\ inflight[name] = 0
          /\ (timers[ReportError] = NoTimer /\ timers'[ReportError] # NoTimer
                 /\ initPc'.at = "wait") =>
                (AcceptStep \/ Completes(ReportError))
          /\ initPc' # initPc =>
                (Completes(VersionCheck) /\ initPc'.i = initPc.i + 1)]_vars

\* the first version check is still in flight; an accepted error has been
\* flushed meanwhile and report-error is armed, the two other jobs are not
WitnessWaitingForVersionCheck ==
    /\ initPc.at = "wait"
    /\ request[VersionCheck] # NoRequest
    /\ timers[ReportError] # NoTimer
    /\ ~jobRuntime[ReportError].isRunning
    /\ timers[ReportCounters] = NoTimer
    /\ timers[ReportMetrics] = NoTimer
    /\ IsEnabled(ReportCounters)

(***************************************************************************)
(* C38                                                                     *)
(***************************************************************************)
\* C38 as stated: an acceptError call before init sends nothing, and the
\* execution that takes its error from the map is started by the timer
EarlyErrorWaitsForTimer ==
    [][/\ (AcceptStep /\ initPc.at = "new") =>
             /\ request' = request
             /\ inflight' = inflight
             /\ errors' = MapAtBuild
       /\ (StartsBody(ReportError) /\ HasError(MapAtBuild, "UNDEFINED ERROR")) =>
             TimerStarts(ReportError)]_vars

\* C38, amended: an acceptError call before init sends nothing and records
\* its error; the error stays in the map until the first execution of
\* report-error, which no earlier report/error request precedes and which
\* sends it with the count recorded; that execution is started by the timer
\* that init armed or, before that timer fires, by an acceptError call made
\* after init armed the job
EarlyErrorGoesWithFirstFlush ==
    [][/\ (AcceptStep /\ initPc.at = "new") =>
             /\ request' = request
             /\ inflight' = inflight
             /\ errors' = MapAtBuild
       /\ HasError(errors, "UNDEFINED ERROR") =>
             /\ probe.flushes = <<>>
             /\ ErrorCount(errors', "UNDEFINED ERROR") < ErrorCount(errors, "UNDEFINED ERROR")
                   => StartsBody(ReportError)
       /\ (StartsBody(ReportError) /\ HasError(MapAtBuild, "UNDEFINED ERROR")) =>
             /\ TimerStarts(ReportError) \/ (AcceptStep /\ timers[ReportError] # NoTimer)
             /\ \E i \in DOMAIN BatchInFlight' :
                   /\ BatchInFlight'[i].error = "UNDEFINED ERROR"
                   /\ BatchInFlight'[i].count = ErrorCount(MapAtBuild, "UNDEFINED ERROR")]_vars

\* two undefined errors were accepted before init and no error since: three
\* seconds after init armed report-error its timer has started the first
\* flush, which carries them with count 2
WitnessEarlyErrorsSent ==
    /\ probe.n = 2
    /\ Len(probe.flushes) = 1
    /\ request[ReportError] # NoRequest
    /\ request[ReportError].error = "UNDEFINED ERROR"
    /\ request[ReportError].count = 2
    /\ ~isFirstErrorReported
    /\ timers[ReportError] = NoTimer

(***************************************************************************)
(* C39                                                                     *)
(***************************************************************************)
\* C39 as stated: on a client that is disabled, whose report-error job is
\* disabled, or that is closed, acceptError records the error, no step
\* executes report-error, no pending count decreases and no report/error
\* request is handed to the transport
NoErrorReportWhenOff ==
    [][(~enabled \/ ~IsEnabled(ReportError) \/ closed) =>
          /\ AcceptStep => errors' = MapAtBuild
          /\ ~Executes(ReportError)
          /\ \A s \in Signatures : ErrorCount(errors', s) >= ErrorCount(errors, s)
          /\ ~SendsRequest(ReportError)]_vars

(***************************************************************************)
(* C40                                                                     *)
(***************************************************************************)
\* C40 as stated: when init is called again while an execution of a job is
\* in flight, no step starts the body of a job that has an execution in
\* flight, and the loop of init leaves the pending timer of every job that
\* it only arms as it is
SecondInitStartsNothingTwice ==
    [][\A name \in ReportActions :
          /\ inflight[name] > 0 => ~StartsBody(name)
          /\ (initPc.at = "run" /\ timers[name] # NoTimer
                /\ ~(JobOrder[initPc.i] = name /\ shouldStartImmediately(name)))
               => timers'[name] = timers[name]]_vars

====
